---------------------------- MODULE Spec2Model ----------------------------
(***************************************************************************)
(* The short-term-favorites notebook of spotify-api as a state machine.    *)
(* The notebook is a straight-line script: every cell is one action (the   *)
(* load loop is one action per requested page and one per loaded song),    *)
(* pc is the cell the script is at.  Spotify is the environment: it holds  *)
(* the playlist, answers every request with 200 or 429, and returns the    *)
(* user's top tracks.  Distances are integers in thousandths.              *)
(***************************************************************************)
EXTENDS Integers, Sequences, FiniteSets, TLC

VARIABLES
    remote,            \* Spotify: the playlist, as a sequence of track numbers
    throttle,          \* Spotify: how many requests it will still answer 429
    requests,          \* every request sent so far, with the status it got
    pc,                \* the cell the script is at
    error,             \* the exception that ended the script, or "none"
    artists,           \* artists = {}            (dict, insertion ordered)
    songs,             \* songs = []
    total_song_count,
    all_genres,
    offset,            \* loop variable of the load loop
    items,             \* items of the fetched page not yet looped over
    all_artists,
    song_dict,
    top_5_songs,
    latest_fav,
    neighbors,
    query,             \* the arguments of the last getNeighbors call
    top_5,             \* the tracks of the top-tracks answer, as track numbers
    library,           \* Spotify: the playlists of the user, in listing order
    new_id,            \* id of the playlist the neighbours are written to
    form,              \* the start form: its checkboxes and text inputs
    updated            \* whether updateCheckboxes has run since the page loaded

vars == <<remote, throttle, requests, pc, error, artists, songs,
          total_song_count, all_genres, offset, items, all_artists,
          song_dict, top_5_songs, latest_fav, neighbors, query, top_5,
          library, new_id, form, updated>>

\* the variables of the notebook
notebook == <<remote, throttle, requests, pc, error, artists, songs,
              total_song_count, all_genres, offset, items, all_artists,
              song_dict, top_5_songs, latest_fav, neighbors, query, top_5,
              library, new_id>>

-----------------------------------------------------------------------------
(* Bounds of the model *)

\* longest playlist whose tracks are drawn freely from the catalogue
MaxSongs == 3
\* most tracks in a top-tracks answer (the request asks for at most 5)
MaxTop == 2
\* most times the load cells are run in one session
MaxLoads == 2
\* most playlists Spotify lists in one answer (its page; 20 when the
\* request names no limit)
MaxListed == 2
\* most requests Spotify answers with 429 in one run
MaxRateLimited == 1
\* largest K an interactive getNeighbors call is given
MaxK == 3
\* the long playlists have up to MaxPages full pages
MaxPages == 2

(* Program constants *)

\* limit=100 of the tracks request, and the step of the offset range
PageLimit == 100
\* K = 51 of the neighbour cell
ScriptK == 51

-----------------------------------------------------------------------------
(* Generic helpers *)

Range(s) == {s[i] : i \in 1..Len(s)}

Min(a, b) == IF a < b THEN a ELSE b

Abs(n) == IF n < 0 THEN -n ELSE n

RECURSIVE Perms(_)
\* every listing of the finite set S: the orders a Python list(set) can have
Perms(S) ==
    IF S = {} THEN {<<>>}
    ELSE UNION {{<<x>> \o p : p \in Perms(S \ {x})} : x \in S}

RECURSIVE ListsUpTo(_, _)
\* the sequences of distinct elements of S of length at most n
ListsUpTo(S, n) ==
    IF n = 0 THEN {<<>>}
    ELSE LET shorter == ListsUpTo(S, n - 1)
         IN  shorter \cup
             UNION {{Append(s, x) : x \in S \ {s[i] : i \in 1..Len(s)}} :
                      s \in shorter}

(* A Python dict: its keys in insertion order, and its values *)

EmptyDict == [keys |-> <<>>, vals |-> <<>>]

DictHas(d, k) == \E i \in 1..Len(d.keys) : d.keys[i] = k

DictGet(d, k) == d.vals[CHOOSE i \in 1..Len(d.keys) : d.keys[i] = k]

DictPut(d, k, v) ==
    IF DictHas(d, k)
    THEN [d EXCEPT !.vals[CHOOSE i \in 1..Len(d.keys) : d.keys[i] = k] = v]
    ELSE [keys |-> Append(d.keys, k), vals |-> Append(d.vals, v)]

-----------------------------------------------------------------------------
(* Spotify: artists, tracks, playlists *)

ArtistName(id) ==
    CASE id = "id1" -> "Ann"
      [] id = "id2" -> "Bob"
      [] id = "id3" -> "Cy"
      [] OTHER      -> "Dee"

\* the "genres" field of GET /v1/artists/{id}; many artists have none
ArtistGenres(id) ==
    CASE id = "id1" -> <<"rock">>
      [] id = "id2" -> <<"rock", "pop">>
      [] id = "id3" -> <<>>
      [] OTHER      -> <<"jazz">>

Artist(id) == [id |-> id, name |-> ArtistName(id)]

\* the tracks 1..4 are the catalogue the short playlists and the top tracks
\* are drawn from (track 4 has the name of track 1 and other artists); the
\* tracks above fill the long playlists and have one artist each
Catalogue == 1..4

TrackArtists(t) ==
    CASE t = 1 -> <<Artist("id1")>>
      [] t = 2 -> <<Artist("id1"), Artist("id2")>>
      [] t = 3 -> <<Artist("id3")>>
      [] t = 4 -> <<Artist("id4"), Artist("id2")>>
      [] OTHER -> <<Artist(CASE t % 3 = 0 -> "id1"
                             [] t % 3 = 1 -> "id3"
                             [] OTHER     -> "id4")>>

TrackPopularity(t) ==
    CASE t = 1 -> 50
      [] t = 2 -> 80
      [] t = 3 -> 50
      [] t = 4 -> 21
      [] OTHER -> (t * 37) % 101

\* a track object of the Web API
Track(t) ==
    [id         |-> "t" \o ToString(t),
     name       |-> "n" \o ToString(IF t = 4 THEN 1 ELSE t),
     popularity |-> TrackPopularity(t),
     artists    |-> TrackArtists(t)]

\* the short playlists: distinct tracks of the catalogue, in any order
ShortPlaylists == ListsUpTo(Catalogue, MaxSongs)

\* the playlists around the K of the neighbour cell: the tracks 1..n
MediumPlaylists == {[i \in 1..n |-> i] : n \in {ScriptK - 1, ScriptK}}

\* the long playlists: full pages, with one track less and one track more
LongPlaylists ==
    {[i \in 1..n |-> i] :
        n \in {p * PageLimit + d : p \in 1..MaxPages, d \in {-1, 0, 1}}}

\* the "items" of GET /v1/playlists/{id}/tracks?limit=..&offset=..
PageItems(playlist, off, limit) ==
    SubSeq(playlist, off + 1, Min(off + limit, Len(playlist)))

\* a range step that is one short of the page size
NextOffset_short(off) == off + PageLimit - 1

\* range(0, total_song_count, 100): the offset after off
NextOffset(off) == off + PageLimit

\* the status Spotify may answer the next request with
Statuses == IF throttle > 0 THEN {200, 429} ELSE {200}

Request(kind, off, id, status) ==
    [kind |-> kind, offset |-> off, id |-> id, status |-> status]

\* how many of the requests in log were answered 429
RECURSIVE Count429(_)
Count429(log) ==
    IF log = <<>> THEN 0
    ELSE (IF Head(log).status = 429 THEN 1 ELSE 0) + Count429(Tail(log))

-----------------------------------------------------------------------------
(* Cell 3: the helpers of the load *)

\* add_genres without the test `genre not in list`
add_genres_no_test(list, genres) == list \o genres

RECURSIVE add_genres(_, _)
add_genres(list, genres) ==
    IF genres = <<>> THEN list
    ELSE add_genres(IF Head(genres) \in Range(list)
                    THEN list
                    ELSE Append(list, Head(genres)),
                    Tail(genres))

\* the local variable artist_genres of get_song_genres, unbound at first
Unbound == [bound |-> FALSE, value |-> <<>>]

RECURSIVE get_song_genres_loop(_, _, _, _)
\* the for loop of get_song_genres from its i-th artist on; responses[i] is
\* the status Spotify answers the lookup of the i-th artist with.  st holds
\* the locals (genres, artist_genres), the global artists, the requests sent
\* and whether line 66 raised UnboundLocalError.
get_song_genres_loop(song_artists, responses, i, st) ==
    IF st.raised \/ i > Len(song_artists) THEN st
    ELSE
      LET artist == song_artists[i]
          id     == artist.id
      IN
      IF ~DictHas(st.artists, id)
      THEN
        LET status == responses[i]
            sent   == Append(st.sent, Request("artist", 0, id, status))
            \* try: artist_genres = res.json()["genres"]
            \* except: print(res.json())
            artist_genres ==
                IF status = 200
                THEN [bound |-> TRUE, value |-> ArtistGenres(id)]
                ELSE st.artist_genres
        IN
        IF ~artist_genres.bound
        THEN [st EXCEPT !.sent = sent, !.raised = TRUE]
        ELSE get_song_genres_loop(song_artists, responses, i + 1,
               [genres        |-> add_genres(st.genres, artist_genres.value),
                artist_genres |-> artist_genres,
                artists       |-> DictPut(st.artists, artist.name,
                                          artist_genres.value),
                sent          |-> sent,
                raised        |-> FALSE])
      ELSE get_song_genres_loop(song_artists, responses, i + 1,
             [st EXCEPT !.genres = add_genres(st.genres,
                                              DictGet(st.artists, id))])

\* get_song_genres(song) run on the dict `dict`: the genres it returns, the
\* dict it leaves, the requests it sent, and whether it raised
get_song_genres(song_artists, responses, dict) ==
    get_song_genres_loop(song_artists, responses, 1,
        [genres |-> <<>>, artist_genres |-> Unbound, artists |-> dict,
         sent |-> <<>>, raised |-> FALSE])

song_data(track) ==
    [id         |-> track.id,
     name       |-> track.name,
     popularity |-> track.popularity,
     artist     |-> [i \in 1..Len(track.artists) |-> track.artists[i].name]]

\* the statuses Spotify may answer n lookups in a row with
Responses(n) ==
    {r \in [1..n -> {200, 429}] :
        Cardinality({i \in 1..n : r[i] = 429}) <= throttle}

-----------------------------------------------------------------------------
(* Spotify: the playlists of the user *)

playlist_name == "Latest Favorites"

\* a playlist the script has nothing to do with
OtherPlaylist == [id |-> "p1", name |-> "Road trip", tracks |-> <<>>]

\* the playlist an earlier run left behind, with a track in it
EarlierPlaylist ==
    [id |-> "p2", name |-> playlist_name, tracks |-> <<"spotify:track:t9">>]

\* a library in which the playlist of the earlier run comes after MaxListed
\* other playlists
LongLibrary ==
    [i \in 1..MaxListed |-> [OtherPlaylist EXCEPT !.id = "p" \o ToString(i)]]
        \o <<[EarlierPlaylist EXCEPT !.id = "p" \o ToString(MaxListed + 1)]>>

\* the libraries a run can meet: a first run, and a run after an earlier one
Libraries == {<<OtherPlaylist>>, <<OtherPlaylist, EarlierPlaylist>>,
              LongLibrary}

\* the "items" of GET /v1/me/playlists, sent without limit and offset: the
\* first page of the library
Listed(lib) == SubSeq(lib, 1, Min(Len(lib), MaxListed))

\* the id Spotify gives a new playlist
FreshId(lib) == "p" \o ToString(Len(lib) + 1)

-----------------------------------------------------------------------------
(* The state after the first three cells have run *)

NoProfile ==
    [id |-> "", name |-> "", genres |-> <<>>, artists |-> <<>>,
     genres_indexed |-> <<>>, artists_indexed |-> <<>>, popularity |-> 0]

NoQuery == [song |-> -1, K |-> -1]

-----------------------------------------------------------------------------
(* The start form (interface/assets/js/index.js): four checkboxes and the
   three text inputs that belong to them *)

\* the checkboxes that choose the source of the playlist
Sources == {"PlaylistUrl", "LikedSongs", "PlaylistID"}

Boxes == Sources \cup {"UserID"}

Texts == {"PlaylistUrlText", "PlaylistIDText", "UserIDText"}

\* the form of a page that nobody has touched; the notebook never reads it
PlainForm ==
    [checked  |-> [b \in Boxes |-> FALSE],
     disabled |-> [e \in Boxes \cup Texts |-> FALSE],
     display  |-> [t \in Texts |-> "none"],
     cursor   |-> [b \in Sources |-> ""]]

InitScript ==
    /\ requests = <<>>
    /\ pc = "count"
    /\ error = "none"
    /\ artists = EmptyDict
    /\ songs = <<>>
    /\ total_song_count = 0
    /\ all_genres = <<>>
    /\ offset = 0
    /\ items = <<>>
    /\ all_artists = <<>>
    /\ song_dict = <<>>
    /\ top_5_songs = <<>>
    /\ latest_fav = NoProfile
    /\ neighbors = <<>>
    /\ query = NoQuery
    /\ top_5 = <<>>
    /\ new_id = ""
    /\ form = PlainForm
    /\ updated = FALSE

\* the library is read by the write-back cells only, which a run on a short
\* playlist never reaches (the neighbours cell raises): one library there
Init ==
    /\ \/ remote \in ShortPlaylists /\ library = <<OtherPlaylist>>
       \/ remote \in MediumPlaylists /\ library \in Libraries
    /\ throttle = MaxRateLimited
    /\ InitScript

\* the short playlists, Spotify never answering 429
InitKNN ==
    /\ remote \in ShortPlaylists
    /\ throttle = 0
    /\ library = <<OtherPlaylist>>
    /\ InitScript

InitLoad ==
    /\ remote \in LongPlaylists
    /\ throttle = MaxRateLimited
    /\ library = <<OtherPlaylist>>
    /\ InitScript

\* an uncaught exception ends the run
Raise(exception) ==
    /\ pc' = "raised"
    /\ error' = exception

-----------------------------------------------------------------------------
(* Cell 4: total_song_count = get_total_song_count(), and the first line
   of cell 5: all_genres = [] *)

GetTotalSongCount ==
    /\ pc = "count"
    /\ \E status \in Statuses :
        /\ requests' = Append(requests, Request("playlist", 0, "", status))
        /\ throttle' = throttle - (IF status = 429 THEN 1 ELSE 0)
        /\ IF status = 200
           THEN /\ total_song_count' = Len(remote)
                /\ all_genres' = <<>>
                /\ offset' = 0
                /\ items' = <<>>
                /\ pc' = "load"
                /\ UNCHANGED error
           ELSE \* the answer has no "tracks": KeyError
                /\ Raise("KeyError")
                /\ UNCHANGED <<total_song_count, all_genres, offset, items>>
    /\ UNCHANGED <<remote, artists, songs,
                   all_artists, song_dict, top_5_songs, latest_fav,
                   neighbors, query,
                   library, new_id, top_5,
                   form, updated>>

(* Cell 5: the load loop *)

\* for offset in range(0, total_song_count, 100): the request of one page
FetchPage ==
    /\ pc = "load"
    /\ items = <<>>
    /\ offset < total_song_count
    /\ \E status \in Statuses :
        /\ requests' = Append(requests, Request("tracks", offset, "", status))
        /\ throttle' = throttle - (IF status = 429 THEN 1 ELSE 0)
        /\ IF status = 200
           THEN LET page == PageItems(remote, offset, PageLimit)
                IN  /\ items' = page
                    /\ offset' = IF page = <<>> THEN NextOffset(offset)
                                                ELSE offset
                    /\ UNCHANGED <<pc, error>>
           ELSE \* the answer has no "items": KeyError
                /\ Raise("KeyError")
                /\ UNCHANGED <<items, offset>>
    /\ UNCHANGED <<remote, artists, songs, total_song_count, all_genres,
                   all_artists, song_dict, top_5_songs, latest_fav,
                   neighbors, query,
                   library, new_id, top_5,
                   form, updated>>

\* one iteration of: for song in all_genres_res.json()["items"]
LoadSong ==
    /\ pc = "load"
    /\ items # <<>>
    /\ LET track == Track(Head(items))
       IN \E responses \in Responses(Len(track.artists)) :
           LET data == song_data(track)
               got  == get_song_genres(track.artists, responses, artists)
           IN
           /\ requests' = requests \o got.sent
           /\ throttle' = throttle - Count429(got.sent)
           /\ artists' = got.artists
           /\ IF got.raised
              THEN /\ Raise("UnboundLocalError")
                   /\ UNCHANGED <<songs, all_genres, items, offset>>
              ELSE /\ songs' = Append(songs,
                        [id |-> data.id, name |-> data.name,
                         artists |-> data.artist,
                         popularity |-> data.popularity,
                         genres |-> got.genres])
                   /\ all_genres' = add_genres(all_genres, got.genres)
                   /\ items' = Tail(items)
                   /\ offset' = IF Tail(items) = <<>>
                                THEN NextOffset(offset) ELSE offset
                   /\ UNCHANGED <<pc, error>>
    /\ UNCHANGED <<remote, total_song_count, all_artists, song_dict,
                   top_5_songs, latest_fav, neighbors, query,
                   library, new_id, top_5,
                   form, updated>>

\* songs[-total_song_count:]
LastOf(list, n) ==
    IF n = 0 \/ n >= Len(list) THEN list
    ELSE SubSeq(list, Len(list) - n + 1, Len(list))

(* Cell 6: songs = songs[-total_song_count:], once the range is exhausted *)
Truncate ==
    /\ pc = "load"
    /\ items = <<>>
    /\ offset >= total_song_count
    /\ songs' = LastOf(songs, total_song_count)
    /\ pc' = "reload"
    /\ UNCHANGED <<remote, throttle, requests, error, artists,
                   total_song_count, all_genres, offset, items, all_artists,
                   song_dict, top_5_songs, latest_fav, neighbors, query,
                   library, new_id, top_5,
                   form, updated>>

(* Cells 7-12: the DataFrame, util.json and playlist.csv written and read  *)
(* back (artists, songs and all_genres come back as they were written),   *)
(* then all_artists = list(artists.keys())                                 *)
Reload ==
    /\ pc = "reload"
    /\ all_artists' = artists.keys
    /\ pc' = "index"
    /\ UNCHANGED <<remote, throttle, requests, error, artists, songs,
                   total_song_count, all_genres, offset, items, song_dict,
                   top_5_songs, latest_fav, neighbors, query,
                   library, new_id, top_5,
                   form, updated>>

-----------------------------------------------------------------------------
(* Cell 13: genres_indexed, artists_indexed *)

RECURSIVE indexed_inner(_, _)
\* for genre in genres: if all_genres_x == genre: ... break
indexed_inner(x, names) ==
    IF names = <<>> THEN FALSE
    ELSE IF x = Head(names) THEN TRUE
    ELSE indexed_inner(x, Tail(names))

RECURSIVE indexed_outer_matches_only(_, _)
\* the outer loop without its indexed.append(int(False))
indexed_outer_matches_only(vocabulary, names) ==
    IF vocabulary = <<>> THEN <<>>
    ELSE (IF indexed_inner(Head(vocabulary), names) THEN <<1>> ELSE <<>>)
         \o indexed_outer_matches_only(Tail(vocabulary), names)

RECURSIVE indexed_outer(_, _)
\* for all_genres_x in all_genres: indexed.append(int(True) or int(False))
indexed_outer(vocabulary, names) ==
    IF vocabulary = <<>> THEN <<>>
    ELSE <<IF indexed_inner(Head(vocabulary), names) THEN 1 ELSE 0>>
         \o indexed_outer(Tail(vocabulary), names)

genres_indexed(genres) == indexed_outer(all_genres, genres)

artists_indexed(names) == indexed_outer(all_artists, names)

(* Cells 14-19: the two vector columns, and song_dict = knn_prepared_data *)
knn_prepared_data(rows) ==
    [i \in 1..Len(rows) |->
        [id              |-> rows[i].id,
         name            |-> rows[i].name,
         genres          |-> rows[i].genres,
         artists         |-> rows[i].artists,
         popularity      |-> rows[i].popularity,
         genres_indexed  |-> genres_indexed(rows[i].genres),
         artists_indexed |-> artists_indexed(rows[i].artists)]]

BuildSongDict ==
    /\ pc = "index"
    /\ song_dict' = knn_prepared_data(songs)
    /\ pc' = "top5"
    /\ UNCHANGED <<remote, throttle, requests, error, artists, songs,
                   total_song_count, all_genres, offset, items, all_artists,
                   top_5_songs, latest_fav, neighbors, query,
                   library, new_id, top_5,
                   form, updated>>

-----------------------------------------------------------------------------
(* Cells 20-22: getNeighbors, list_distance, ComputeDistance *)

RECURSIVE list_distance_loop(_, _, _, _)
\* for item_a, item_b in list(zip(a, b)), in thousandths
list_distance_loop(a, b, i, distance) ==
    IF i > Min(Len(a), Len(b)) THEN distance
    ELSE list_distance_loop(a, b, i + 1,
           IF a[i] # b[i]
           THEN (IF a[i] = 1 THEN distance + 400 ELSE distance + 200)
           ELSE (IF a[i] = 1 THEN distance - 400 ELSE distance))

RECURSIVE list_distance_symmetric_loop(_, _, _, _)
list_distance_symmetric_loop(a, b, i, distance) ==
    IF i > Min(Len(a), Len(b)) THEN distance
    ELSE list_distance_symmetric_loop(a, b, i + 1,
           IF a[i] # b[i] THEN distance + 400
           ELSE (IF a[i] = 1 THEN distance - 400 ELSE distance))

\* list_distance with the same penalty for both kinds of mismatch
list_distance_symmetric(a, b) == list_distance_symmetric_loop(a, b, 1, 0)

list_distance(a, b) == list_distance_loop(a, b, 1, 0)

\* ComputeDistance without the 0.4 on the artists
ComputeDistance_unscaled(a, b) ==
    list_distance(a.genres_indexed, b.genres_indexed)
    + list_distance(a.artists_indexed, b.artists_indexed)
    + Abs(a.popularity - b.popularity) * 5

\* genres_distance + artists_distance * 0.4 + popularity_distance * 0.005,
\* in thousandths
ComputeDistance(a, b) ==
    LET genres_distance     == list_distance(a.genres_indexed, b.genres_indexed)
        artists_distance    == list_distance(a.artists_indexed, b.artists_indexed)
        popularity_distance == Abs(a.popularity - b.popularity)
    IN  genres_distance + (artists_distance * 4) \div 10
        + popularity_distance * 5

RECURSIVE Merge_right_first(_, _)
\* a merge that takes the right list first on equal distance
Merge_right_first(l, r) ==
    IF l = <<>> THEN r
    ELSE IF r = <<>> THEN l
    ELSE IF Head(l)[2] < Head(r)[2]
         THEN <<Head(l)>> \o Merge_right_first(Tail(l), r)
         ELSE <<Head(r)>> \o Merge_right_first(l, Tail(r))

RECURSIVE Merge(_, _)
\* two lists sorted by distance merged, the left one first on equal distance
Merge(l, r) ==
    IF l = <<>> THEN r
    ELSE IF r = <<>> THEN l
    ELSE IF Head(l)[2] <= Head(r)[2]
         THEN <<Head(l)>> \o Merge(Tail(l), r)
         ELSE <<Head(r)>> \o Merge(l, Tail(r))

RECURSIVE SortByDistance(_)
\* distances.sort(key=operator.itemgetter(1)): a stable sort
SortByDistance(list) ==
    IF Len(list) <= 1 THEN list
    ELSE LET half == Len(list) \div 2
         IN  Merge(SortByDistance(SubSeq(list, 1, half)),
                   SortByDistance(SubSeq(list, half + 1, Len(list))))

RECURSIVE Distances(_, _)
\* the list distances after the loop over enumerate(song_dict), from the
\* (0-based) index song_index on
Distances(song, song_index) ==
    IF song_index >= Len(song_dict) THEN <<>>
    ELSE (IF song_index # song
          THEN <<<<song_index,
                   ComputeDistance(song_dict[song + 1],
                                   song_dict[song_index + 1])>>>>
          ELSE <<>>)
         \o Distances(song, song_index + 1)

\* getNeighbors that stops at the end of distances and returns what it has
getNeighbors_short(song, K) ==
    LET distances == SortByDistance(Distances(song, 0))
    IN  [raised |-> FALSE,
         neighbors |-> SubSeq(distances, 1, Min(K, Len(distances)))]

\* getNeighbors without the test `song_index != song`
getNeighbors_with_base(song, K) ==
    LET distances ==
          SortByDistance([i \in 1..Len(song_dict) |->
              <<i - 1, ComputeDistance(song_dict[song + 1], song_dict[i])>>])
    IN  IF K > Len(distances)
        THEN [raised |-> TRUE, neighbors |-> <<>>]
        ELSE [raised |-> FALSE, neighbors |-> SubSeq(distances, 1, K)]

\* getNeighbors(song, K): the list it returns, or raised when distances[x]
\* is out of range (IndexError)
getNeighbors(song, K) ==
    LET distances == SortByDistance(Distances(song, 0))
    IN  IF K > Len(distances)
        THEN [raised |-> TRUE, neighbors |-> <<>>]
        ELSE [raised |-> FALSE, neighbors |-> SubSeq(distances, 1, K)]

-----------------------------------------------------------------------------
(* Cell 23: get_genres, get_artists *)

\* `a and b` in the place of `a or b`
PyAnd(a, b) == IF a # 0 THEN b ELSE a

\* Python's `a or b` on the entries of the vectors
PyOr(a, b) == IF a # 0 THEN a ELSE b

RECURSIVE get_genres_loop(_, _, _)
\* for index in range(1, len(genres)): all_genres[i] = all_genres[i] or ...
get_genres_loop(acc, genres, index) ==
    IF index > Len(genres) THEN acc
    ELSE get_genres_loop([i \in 1..Len(acc) |-> PyOr(acc[i], genres[index][i])],
                         genres, index + 1)

\* genres is a non-empty list of vectors (genres[0] raises IndexError else)
get_genres(genres) == get_genres_loop(genres[1], genres, 2)

get_artists(vectors) == get_genres_loop(vectors[1], vectors, 2)

-----------------------------------------------------------------------------
(* Cell 24: the top tracks and top_5_songs *)

\* the "items" Spotify may answer the top-tracks request with
TopAnswers == ListsUpTo(Catalogue, MaxTop)

RECURSIVE TotalArtists(_)
TotalArtists(top) ==
    IF top = <<>> THEN 0
    ELSE Len(Track(Head(top)).artists) + TotalArtists(Tail(top))

RECURSIVE map_top_5(_, _, _, _, _)
\* the map of line 395 from the i-th item on; base is the number of lookups
\* of the items before it, st holds the mapped songs, the global artists,
\* the requests sent and whether get_song_genres raised
map_top_5(top, responses, i, base, st) ==
    IF st.raised \/ i > Len(top) THEN st
    ELSE
      LET song == Track(top[i])
          n    == Len(song.artists)
          got  == get_song_genres(song.artists,
                                  [j \in 1..n |-> responses[base + j]],
                                  st.artists)
      IN map_top_5(top, responses, i + 1, base + n,
           [mapped  |-> IF got.raised THEN st.mapped
                        ELSE Append(st.mapped,
                               [name       |-> song.name,
                                genres     |-> got.genres,
                                artists    |-> [j \in 1..n |->
                                                  song.artists[j].name],
                                popularity |-> song.popularity]),
            artists |-> got.artists,
            sent    |-> st.sent \o got.sent,
            raised  |-> got.raised])

\* filter(lambda song: song['name'] in list(playlist['name']), ...)
RECURSIVE filter_in_playlist(_)
filter_in_playlist(mapped) ==
    IF mapped = <<>> THEN <<>>
    ELSE (IF \E i \in 1..Len(songs) : songs[i].name = Head(mapped).name
          THEN <<Head(mapped)>> ELSE <<>>)
         \o filter_in_playlist(Tail(mapped))

Top5 ==
    /\ pc = "top5"
    /\ \E status \in Statuses :
        IF status = 200
        THEN \E top \in TopAnswers :
             \E responses \in Responses(TotalArtists(top)) :
               LET got == map_top_5(top, responses, 1, 0,
                            [mapped |-> <<>>, artists |-> artists,
                             sent |-> <<>>, raised |-> FALSE])
               IN
               /\ requests' = Append(requests, Request("top", 0, "", 200))
                              \o got.sent
               /\ throttle' = throttle - Count429(got.sent)
               /\ artists' = got.artists
               /\ top_5' = top
               /\ IF got.raised
                  THEN /\ Raise("UnboundLocalError")
                       /\ UNCHANGED top_5_songs
                  ELSE /\ top_5_songs' = filter_in_playlist(got.mapped)
                       /\ pc' = "profile"
                       /\ UNCHANGED error
        ELSE \* the answer has no "items": KeyError
             /\ requests' = Append(requests, Request("top", 0, "", status))
             /\ throttle' = throttle - 1
             /\ Raise("KeyError")
             /\ top_5' = <<>>
             /\ UNCHANGED <<artists, top_5_songs>>
    /\ UNCHANGED <<remote, songs, total_song_count, all_genres, offset, items,
                   all_artists, song_dict, latest_fav, neighbors, query,
                   library, new_id,
                   form, updated>>

-----------------------------------------------------------------------------
(* Cell 26: latest_fav *)

RECURSIVE TempLists(_, _, _)
\* reduce(lambda acc, x: acc + list(set(x) - set(acc)), lists, []): every
\* list it can return, the order of list(set) being unspecified
TempLists(lists, i, acc) ==
    IF i > Len(lists) THEN {acc}
    ELSE UNION {TempLists(lists, i + 1, acc \o p) :
                  p \in Perms(Range(lists[i]) \ Range(acc))}

RECURSIVE SumPopularity(_)
SumPopularity(list) ==
    IF list = <<>> THEN 0
    ELSE Head(list).popularity + SumPopularity(Tail(list))

\* the mean rounded to the nearest integer, halves upwards
profile_popularity_rounded(list) ==
    (2 * SumPopularity(list) + Len(list)) \div (2 * Len(list))

\* int(reduce(lambda acc, song: acc + int(song['popularity']), list, 0)
\*     / len(list)): the popularities are not negative, int() is the floor
profile_popularity(list) == SumPopularity(list) \div Len(list)

BuildProfile ==
    /\ pc = "profile"
    /\ \E temp_genres \in TempLists([i \in 1..Len(top_5_songs) |->
                                       top_5_songs[i].genres], 1, <<>>) :
       \E temp_artists \in TempLists([i \in 1..Len(top_5_songs) |->
                                        top_5_songs[i].artists], 1, <<>>) :
         IF top_5_songs = <<>>
         THEN \* get_genres([]) raises IndexError: latest_fav has no vectors
              /\ latest_fav' = [NoProfile EXCEPT !.name = "Latest Favorites"]
              /\ Raise("IndexError")
         ELSE /\ latest_fav' =
                   [id              |-> "",
                    name            |-> "Latest Favorites",
                    genres          |-> temp_genres,
                    artists         |-> temp_artists,
                    genres_indexed  |->
                        get_genres([i \in 1..Len(top_5_songs) |->
                            genres_indexed(top_5_songs[i].genres)]),
                    artists_indexed |->
                        get_artists([i \in 1..Len(top_5_songs) |->
                            artists_indexed(top_5_songs[i].artists)]),
                    popularity      |-> profile_popularity(top_5_songs)]
              /\ pc' = "append"
              /\ UNCHANGED error
    /\ UNCHANGED <<remote, throttle, requests, artists, songs,
                   total_song_count, all_genres, offset, items, all_artists,
                   song_dict, top_5_songs, neighbors, query,
                   library, new_id, top_5,
                   form, updated>>

\* the cell without its test on the lengths: the last record is replaced
AppendProfile_overwrite ==
    /\ pc = "append"
    /\ song_dict' = Append(SubSeq(song_dict, 1, Len(song_dict) - 1),
                           latest_fav)
    /\ pc' = "neighbors"
    /\ UNCHANGED <<remote, throttle, requests, error, artists, songs,
                   total_song_count, all_genres, offset, items, all_artists,
                   top_5_songs, latest_fav, neighbors, query,
                   library, new_id, top_5,
                   form, updated>>

\* the cell with song_dict.pop() left out of its elif branch
append_cell_no_pop(dict, n, fav) ==
    IF Len(dict) = n \/ Len(dict) = n + 1
    THEN [raised |-> FALSE, song_dict |-> Append(dict, fav)]
    ELSE [raised |-> TRUE, song_dict |-> dict]

\* cell 27 run on the list dict, with n = len(songs) and fav = latest_fav:
\* the list it leaves, and whether it raised
append_cell(dict, n, fav) ==
    IF Len(dict) = n
    THEN [raised |-> FALSE, song_dict |-> Append(dict, fav)]
    ELSE IF Len(dict) = n + 1
    THEN [raised |-> FALSE,
          song_dict |-> Append(SubSeq(dict, 1, Len(dict) - 1), fav)]
    ELSE [raised |-> TRUE, song_dict |-> dict]

(* Cell 27: the profile appended to song_dict *)
AppendProfile ==
    /\ pc = "append"
    /\ LET ran == append_cell(song_dict, Len(songs), latest_fav)
       IN  /\ song_dict' = ran.song_dict
           /\ IF ran.raised
              THEN Raise("Exception")
              ELSE /\ pc' = "neighbors"
                   /\ UNCHANGED error
    /\ UNCHANGED <<remote, throttle, requests, artists, songs,
                   total_song_count, all_genres, offset, items, all_artists,
                   top_5_songs, latest_fav, neighbors, query,
                   library, new_id, top_5,
                   form, updated>>

(* Cell 28: K = 51; index = len(song_dict) - 1; getNeighbors(index, K) *)
FindNeighbors ==
    /\ pc = "neighbors"
    /\ LET K     == ScriptK
           index == Len(song_dict) - 1
           got   == getNeighbors(index, K)
       IN  /\ query' = [song |-> index, K |-> K]
           /\ IF got.raised
              THEN /\ Raise("IndexError")
                   /\ UNCHANGED neighbors
              ELSE /\ neighbors' = got.neighbors
                   /\ pc' = "writeback"
                   /\ UNCHANGED error
    /\ UNCHANGED <<remote, throttle, requests, artists, songs,
                   total_song_count, all_genres, offset, items, all_artists,
                   song_dict, top_5_songs, latest_fav,
                   library, new_id, top_5,
                   form, updated>>

\* getNeighbors(song, K) called by hand on the song_dict of the session,
\* with or without the profile in it
GetNeighborsCall ==
    /\ pc \in {"top5", "neighbors"}
    /\ \E song \in 0..(Len(song_dict) - 1) :
       \E K \in 0..MaxK :
         LET got == getNeighbors(song, K)
         IN  /\ query' = [song |-> song, K |-> K]
             /\ IF got.raised
                THEN /\ Raise("IndexError")
                     /\ UNCHANGED neighbors
                ELSE /\ neighbors' = got.neighbors
                     /\ pc' = "called"
                     /\ UNCHANGED error
    /\ UNCHANGED <<remote, throttle, requests, artists, songs,
                   total_song_count, all_genres, offset, items, all_artists,
                   song_dict, top_5_songs, latest_fav,
                   library, new_id, top_5,
                   form, updated>>

-----------------------------------------------------------------------------
(* Cells 29 to 31: the neighbours are written to the playlist *)

RECURSIVE playlist_exists(_, _)
\* the id of the first listed playlist called name, or "" for False
playlist_exists(name, listed) ==
    IF listed = <<>> THEN ""
    ELSE IF Head(listed).name = name THEN Head(listed).id
         ELSE playlist_exists(name, Tail(listed))

\* Spotify: the library after the tracks `uris` are removed from playlist id
RemoveTracks(lib, id, uris) ==
    [i \in 1..Len(lib) |->
        IF lib[i].id = id
        THEN [lib[i] EXCEPT !.tracks =
                 SelectSeq(lib[i].tracks, LAMBDA u : u \notin Range(uris))]
        ELSE lib[i]]

\* Spotify: the library after the tracks `uris` are added to playlist id
AddTracks(lib, id, uris) ==
    [i \in 1..Len(lib) |->
        IF lib[i].id = id
        THEN [lib[i] EXCEPT !.tracks = lib[i].tracks \o uris]
        ELSE lib[i]]

\* the tracks of playlist id, as the tracks request lists them
TracksOf(lib, id) ==
    LET at == CHOOSE i \in 1..Len(lib) : lib[i].id = id
    IN  lib[at].tracks

(* Cell 30: the playlist is found and emptied, or created *)
PrepareTarget ==
    /\ pc = "writeback"
    /\ \E r \in Responses(3) :
        LET playlist_id_found ==
                playlist_exists(playlist_name, Listed(library))
            first == <<Request("playlists", 0, "", r[1])>>
        IN
        IF r[1] # 200
        THEN \* playlist_exists: the answer has no "items"
             /\ requests' = requests \o first
             /\ throttle' = throttle - 1
             /\ new_id' = ""
             /\ Raise("KeyError")
             /\ UNCHANGED library
        ELSE IF playlist_id_found # ""
        THEN LET playlist_tracks == TracksOf(library, playlist_id_found)
                 sent == first
                         \o <<Request("tracks", 0, playlist_id_found, r[2])>>
             IN
             /\ new_id' = playlist_id_found
             /\ IF r[2] # 200
                THEN /\ requests' = requests \o sent
                     /\ throttle' = throttle - 1
                     /\ Raise("KeyError")
                     /\ UNCHANGED library
                ELSE \* the answer of the delete is printed, whatever it is
                     /\ requests' = requests \o sent \o
                           <<Request("delete", 0, playlist_id_found, r[3])>>
                     /\ throttle' = throttle - (IF r[3] = 429 THEN 1 ELSE 0)
                     /\ library' = IF r[3] = 200
                                   THEN RemoveTracks(library,
                                            playlist_id_found, playlist_tracks)
                                   ELSE library
                     /\ pc' = "add"
                     /\ UNCHANGED error
        ELSE /\ requests' = requests \o first
                            \o <<Request("create", 0, "", r[2])>>
             /\ throttle' = throttle - (IF r[2] = 429 THEN 1 ELSE 0)
             /\ IF r[2] # 200
                THEN \* the answer has no "id"
                     /\ new_id' = ""
                     /\ Raise("KeyError")
                     /\ UNCHANGED library
                ELSE /\ new_id' = FreshId(library)
                     /\ library' = <<[id |-> FreshId(library),
                                      name |-> playlist_name,
                                      tracks |-> <<>>]>> \o library
                     /\ pc' = "add"
                     /\ UNCHANGED error
    /\ UNCHANGED <<remote, artists, songs, total_song_count, all_genres,
                   offset, items, all_artists, song_dict, top_5_songs,
                   latest_fav, neighbors, query, top_5,
                   form, updated>>

RECURSIVE song_uris_loop(_, _)
\* for neighbor in neighbors: song_dict[neighbor]["id"], neighbor being the
\* list [index, distance]: a list is no index of a list (TypeError)
song_uris_loop(list, uris) ==
    IF list = <<>> THEN [raised |-> FALSE, uris |-> uris]
    ELSE [raised |-> TRUE, uris |-> uris]

(* Cell 31: song_uris, and the request that adds them *)
AddSongs ==
    /\ pc = "add"
    /\ LET song_uris == song_uris_loop(neighbors, <<>>)
       IN  IF song_uris.raised
           THEN /\ Raise("TypeError")
                /\ UNCHANGED <<requests, throttle, library>>
           ELSE \E status \in Statuses :
                /\ requests' = Append(requests,
                                      Request("add", 0, new_id, status))
                /\ throttle' = throttle - (IF status = 429 THEN 1 ELSE 0)
                /\ library' = IF status = 200
                              THEN AddTracks(library, new_id, song_uris.uris)
                              ELSE library
                /\ pc' = "done"
                /\ UNCHANGED error
    /\ UNCHANGED <<remote, artists, songs, total_song_count, all_genres,
                   offset, items, all_artists, song_dict, top_5_songs,
                   latest_fav, neighbors, query, top_5, new_id,
                   form, updated>>

-----------------------------------------------------------------------------
(* The load cells run again in the same session *)

\* how many times the load cells have been started
Loads ==
    Cardinality({i \in 1..Len(requests) : requests[i].kind = "playlist"})

\* cells 4 to 12 are run again, artists and songs being what the session
\* holds; the playlist read is any playlist, the same one included
RunLoadAgain ==
    /\ pc = "index"
    /\ Loads < MaxLoads
    /\ remote' \in ShortPlaylists
    /\ pc' = "count"
    /\ UNCHANGED <<throttle, requests, error, artists, songs,
                   total_song_count, all_genres, offset, items, all_artists,
                   song_dict, top_5_songs, latest_fav, neighbors, query,
                   top_5, library, new_id,
                   form, updated>>

-----------------------------------------------------------------------------
(* The profile cells run again in the same session *)

\* cells 26 and 27 are run again once the profile is in song_dict: the
\* profile is built again from top_5_songs (list(set(...)) may order its
\* genres and artists differently) and appended again
RunProfileAgain ==
    /\ pc = "neighbors"
    /\ pc' = "profile"
    /\ UNCHANGED <<remote, throttle, requests, error, artists, songs,
                   total_song_count, all_genres, offset, items, all_artists,
                   song_dict, top_5_songs, latest_fav, neighbors, query,
                   top_5, library, new_id,
                   form, updated>>

-----------------------------------------------------------------------------
(* The script, cell after cell *)

Next ==
    \/ GetTotalSongCount
    \/ FetchPage
    \/ LoadSong
    \/ Truncate
    \/ Reload
    \/ BuildSongDict
    \/ Top5
    \/ BuildProfile
    \/ AppendProfile
    \/ FindNeighbors
    \/ PrepareTarget
    \/ AddSongs

Spec == Init /\ [][Next]_vars

\* the same session on the short playlists, getNeighbors called by hand
NextKNN ==
    \/ GetTotalSongCount
    \/ FetchPage
    \/ LoadSong
    \/ Truncate
    \/ Reload
    \/ BuildSongDict
    \/ Top5
    \/ BuildProfile
    \/ AppendProfile
    \/ GetNeighborsCall

SpecKNN == InitKNN /\ [][NextKNN]_vars

\* the load cells alone, on the long playlists
NextLoad ==
    \/ GetTotalSongCount
    \/ FetchPage
    \/ LoadSong
    \/ Truncate

SpecLoad == InitLoad /\ [][NextLoad]_vars

\* the load cells on the short playlists, run up to MaxLoads times
NextReload ==
    \/ GetTotalSongCount
    \/ FetchPage
    \/ LoadSong
    \/ Truncate
    \/ Reload
    \/ RunLoadAgain

SpecReload == InitKNN /\ [][NextReload]_vars

\* the script up to the append cell, the profile cells run any number of
\* times
NextAppend ==
    \/ GetTotalSongCount
    \/ FetchPage
    \/ LoadSong
    \/ Truncate
    \/ Reload
    \/ BuildSongDict
    \/ Top5
    \/ BuildProfile
    \/ AppendProfile
    \/ RunProfileAgain

SpecAppend == InitKNN /\ [][NextAppend]_vars

-----------------------------------------------------------------------------
(* Properties *)

\* how many positions hold x in a and y in b
CountPairs(a, b, x, y) ==
    Cardinality({i \in 1..Len(a) : a[i] = x /\ b[i] = y})

\* the base song and the n-th neighbour of the last getNeighbors call
BaseSong == song_dict[query.song + 1]

NeighborSong(n) == song_dict[neighbors[n][1] + 1]

\* the sum the distance is stated to be, in thousandths
WeightedSum(a, b) ==
    LET G == 400 * CountPairs(a.genres_indexed, b.genres_indexed, 1, 0)
             + 200 * CountPairs(a.genres_indexed, b.genres_indexed, 0, 1)
             - 400 * CountPairs(a.genres_indexed, b.genres_indexed, 1, 1)
        A == 160 * CountPairs(a.artists_indexed, b.artists_indexed, 1, 0)
             + 80 * CountPairs(a.artists_indexed, b.artists_indexed, 0, 1)
             - 160 * CountPairs(a.artists_indexed, b.artists_indexed, 1, 1)
    IN  G + A + 5 * Abs(a.popularity - b.popularity)

\* C1: every distance getNeighbors returns is, in thousandths, G + A +
\* 5 * |popularity difference| of the base song and the neighbour, G adding
\* 400/200/-400 per genre position and A adding 160/80/-160 per artist
\* position.
C1_DistanceIsWeightedSum ==
    pc = "called" =>
        \A n \in 1..Len(neighbors) :
            neighbors[n][2] = WeightedSum(BaseSong, NeighborSong(n))

\* a call that returned a neighbour for which all three terms count: genres
\* shared and mismatched, artists shared and mismatched, popularity differing
C1_Witness ==
    /\ pc = "called"
    /\ \E n \in 1..Len(neighbors) :
        LET a == BaseSong
            b == NeighborSong(n)
        IN  /\ CountPairs(a.genres_indexed, b.genres_indexed, 1, 1) > 0
            /\ CountPairs(a.genres_indexed, b.genres_indexed, 0, 1) > 0
            /\ CountPairs(a.artists_indexed, b.artists_indexed, 1, 1) > 0
            /\ CountPairs(a.artists_indexed, b.artists_indexed, 1, 0) > 0
            /\ a.popularity # b.popularity

\* what one position adds to list_distance, in thousandths
PositionScore(x, y) ==
    CASE x = 1 /\ y = 0 -> 400
      [] x = 0 /\ y = 1 -> 200
      [] x = 1 /\ y = 1 -> -400
      [] OTHER          -> 0

\* list_distance of the first n positions of a and b
PrefixDistance(a, b, n) == list_distance(SubSeq(a, 1, n), SubSeq(b, 1, n))

ListDistanceByPosition(a, b) ==
    /\ Len(a) = Len(b)
    /\ PrefixDistance(a, b, 0) = 0
    /\ \A n \in 1..Len(a) :
        /\ PrefixDistance(a, b, n) - PrefixDistance(a, b, n - 1)
              = PositionScore(a[n], b[n])
        /\ PrefixDistance(a, b, n) < PrefixDistance(a, b, n - 1)
              <=> (a[n] = 1 /\ b[n] = 1)
    /\ list_distance(a, b) = PrefixDistance(a, b, Len(a))

\* C2: on the vectors of any two records of song_dict, each position adds to
\* list_distance +0.4 for 1/0, +0.2 for 0/1, -0.4 for 1/1 and nothing for
\* 0/0, and only a position with 1/1 lowers the distance.
C2_ListDistanceByPosition ==
    pc \in {"top5", "neighbors"} =>
        \A i, j \in 1..Len(song_dict) :
            /\ ListDistanceByPosition(song_dict[i].genres_indexed,
                                      song_dict[j].genres_indexed)
            /\ ListDistanceByPosition(song_dict[i].artists_indexed,
                                      song_dict[j].artists_indexed)

\* two records whose artist vectors show all four cases
C2_Witness ==
    /\ pc = "neighbors"
    /\ \E i, j \in 1..Len(song_dict) :
        LET a == song_dict[i].artists_indexed
            b == song_dict[j].artists_indexed
        IN  /\ CountPairs(a, b, 1, 0) > 0
            /\ CountPairs(a, b, 0, 1) > 0
            /\ CountPairs(a, b, 1, 1) > 0
            /\ CountPairs(a, b, 0, 0) > 0

\* C3: with 0 <= K <= len(song_dict) - 1, getNeighbors(s, K) does not raise
\* and returns exactly K pairs: none is the base song, no index is returned
\* twice, each distance is ComputeDistance(song_dict[s], song_dict[index]),
\* the distances do not decrease, and no song left out is closer than the
\* last one returned.
C3_NeighborsAreTheKClosest ==
    /\ (pc = "raised" /\ error = "IndexError" /\ query # NoQuery)
          => query.K > Len(song_dict) - 1
    /\ pc = "called" =>
        LET returned == {neighbors[n][1] : n \in 1..Len(neighbors)}
        IN  /\ Len(neighbors) = query.K
            /\ \A n \in 1..Len(neighbors) :
                /\ neighbors[n][1] \in 0..(Len(song_dict) - 1)
                /\ neighbors[n][1] # query.song
                /\ neighbors[n][2]
                      = ComputeDistance(BaseSong, NeighborSong(n))
            /\ \A m, n \in 1..Len(neighbors) :
                /\ m # n => neighbors[m][1] # neighbors[n][1]
                /\ m < n => neighbors[m][2] <= neighbors[n][2]
            /\ \A other \in 0..(Len(song_dict) - 1) :
                (other # query.song /\ other \notin returned)
                   => \A n \in 1..Len(neighbors) :
                        neighbors[n][2]
                           <= ComputeDistance(BaseSong, song_dict[other + 1])

\* a call that returned two songs at different distances, out of order of
\* their indexes, and left a third one out
C3_Witness ==
    /\ pc = "called"
    /\ query.K = 2
    /\ Len(song_dict) > 3
    /\ neighbors[1][2] < neighbors[2][2]
    /\ neighbors[1][1] > neighbors[2][1]

\* vector is the membership vector of names over vocabulary
IsMembership(vector, vocabulary, names) ==
    /\ Len(vector) = Len(vocabulary)
    /\ \A i \in 1..Len(vocabulary) :
        vector[i] = IF vocabulary[i] \in Range(names) THEN 1 ELSE 0

\* C5: every record of song_dict, the profile included, carries a genre
\* vector of the length of all_genres whose i-th entry is 1 exactly when
\* all_genres[i] is one of the record's genres, and an artist vector of the
\* length of all_artists built the same way; names outside the vocabulary
\* leave no trace.
C5_VectorsAreMembership ==
    \A r \in 1..Len(song_dict) :
        /\ IsMembership(song_dict[r].genres_indexed, all_genres,
                        song_dict[r].genres)
        /\ IsMembership(song_dict[r].artists_indexed, all_artists,
                        song_dict[r].artists)

\* the profile is in song_dict, with a genre and an artist that are not in
\* the vocabularies, and its vectors hold a 1 and a 0
C5_Witness ==
    /\ pc = "neighbors"
    /\ Len(song_dict) = Len(songs) + 1
    /\ LET profile == song_dict[Len(song_dict)]
       IN  /\ \E g \in Range(profile.genres) : g \notin Range(all_genres)
           /\ \E a \in Range(profile.artists) : a \notin Range(all_artists)
           /\ {0, 1} \subseteq Range(profile.genres_indexed)
           /\ {0, 1} \subseteq Range(profile.artists_indexed)

NoDuplicates(list) ==
    \A i, j \in 1..Len(list) : i # j => list[i] # list[j]

\* the places <<song, position>> of songs where genre g is recorded
Places(g) ==
    UNION {{<<i, p>> : p \in {q \in 1..Len(songs[i].genres) :
                                   songs[i].genres[q] = g}} :
             i \in 1..Len(songs)}

\* genre g is seen in songs before genre h is: in an earlier song, or in the
\* same song at an earlier position
SeenBefore(g, h) ==
    \E x \in Places(g) : \A y \in Places(h) :
        x[1] < y[1] \/ (x[1] = y[1] /\ x[2] < y[2])

\* names holds every artist of every loaded song, each once
HoldsLoadedArtists(names) ==
    /\ NoDuplicates(names)
    /\ \A i \in 1..Len(songs) : Range(songs[i].artists) \subseteq Range(names)

\* C6: in every state of the load and after it, all_genres holds exactly the
\* genres recorded on the loaded songs, each once and in first-seen order;
\* the keys of artists, and all_artists once it is built from them, hold
\* every artist name of every loaded song, each once.
C6_VocabulariesCoverTheLoad ==
    /\ NoDuplicates(all_genres)
    /\ Range(all_genres) = UNION {Range(songs[i].genres) : i \in 1..Len(songs)}
    /\ \A p, q \in 1..Len(all_genres) :
        p < q => SeenBefore(all_genres[p], all_genres[q])
    /\ HoldsLoadedArtists(artists.keys)
    /\ pc \in {"index", "top5", "profile", "append", "neighbors", "writeback"}
          => HoldsLoadedArtists(all_artists)

\* inside the load loop, after the iteration of a song that brought a genre
\* and an artist already seen, and a new genre
C6_Witness ==
    /\ pc = "load"
    /\ items # <<>>
    /\ Len(songs) = 2
    /\ Range(songs[1].genres) \cap Range(songs[2].genres) # {}
    /\ Range(songs[1].artists) \cap Range(songs[2].artists) # {}
    /\ Range(songs[2].genres) \ Range(songs[1].genres) # {}

IsPageRequest(r) == r.kind = "tracks"

PageRequests == SelectSeq(requests, IsPageRequest)

\* C7: the pages are requested at the offsets 0, 100, 200, ... below
\* total_song_count; once the load and the truncation are done every
\* position of the playlist was returned by exactly one page, and songs
\* holds the total_song_count tracks of the playlist in playlist order.
C7_PagesCoverThePlaylist ==
    LET pages == PageRequests
    IN  /\ \A j \in 1..Len(pages) :
            /\ pages[j].offset = (j - 1) * 100
            /\ pages[j].offset < total_song_count
        /\ pc = "reload" =>
            /\ total_song_count = Len(remote)
            /\ \A position \in 0..(total_song_count - 1) :
                Cardinality({j \in 1..Len(pages) :
                    /\ pages[j].status = 200
                    /\ pages[j].offset <= position
                    /\ position < pages[j].offset + 100}) = 1
            /\ Len(songs) = total_song_count
            /\ \A i \in 1..Len(songs) : songs[i].id = Track(remote[i]).id

\* a load that is done, of a playlist of more than one page whose last page
\* is not full
C7_Witness ==
    /\ pc = "reload"
    /\ total_song_count > 100
    /\ total_song_count % 100 # 0
    /\ Len(songs) = total_song_count

\* C8: a page request or an artist lookup answered 429 is sent again: the
\* next request is the same one, and the script does not end on it.
C8_RateLimitedRequestIsRetried ==
    \A i \in 1..Len(requests) :
        (requests[i].status = 429 /\ requests[i].kind \in {"tracks", "artist"})
           => /\ i = Len(requests) => pc # "raised"
              /\ i < Len(requests) =>
                    /\ requests[i + 1].kind = requests[i].kind
                    /\ requests[i + 1].offset = requests[i].offset
                    /\ requests[i + 1].id = requests[i].id

\* C9: an artist answer without "genres" does not end the script:
\* get_song_genres returns and the load goes on.
C9_MissingGenresIsSwallowed ==
    (/\ requests # <<>>
     /\ requests[Len(requests)].kind = "artist"
     /\ requests[Len(requests)].status # 200)
        => pc # "raised"

\* C10: the neighbour list the script computes has exactly 50 entries.
C10_FiftyNeighbours ==
    pc = "writeback" => Len(neighbors) = 50

\* the 0-based indices of the neighbours last computed
NeighborIndices == {neighbors[n][1] : n \in 1..Len(neighbors)}

\* the script is past the cell that computes the neighbours of the profile
NeighborsFound ==
    \/ pc \in {"writeback", "add", "done"}
    \/ pc = "raised" /\ query.K = ScriptK /\ neighbors # <<>>

\* C11: the neighbours computed for the profile (the last record of song_dict)
\* are songs of the playlist: none is the profile itself, each index is below
\* len(songs) and each record has a track id that is not empty
C11_NeighborsArePlaylistSongs ==
    NeighborsFound =>
        LET ids == {Track(remote[i]).id : i \in 1..Len(remote)}
        IN  /\ query.song = Len(song_dict) - 1
            /\ song_dict[Len(song_dict)].id = ""
            /\ \A n \in 1..Len(neighbors) :
                  LET index == neighbors[n][1]
                  IN  /\ index # Len(song_dict) - 1
                      /\ index >= 0 /\ index < Len(songs)
                      /\ song_dict[index + 1].id # ""
                      /\ song_dict[index + 1].id \in ids

C11_Witness ==
    /\ pc = "writeback"
    /\ Len(neighbors) = ScriptK
    /\ latest_fav = song_dict[Len(song_dict)]

\* the cell that adds the neighbours to the playlist has run, to its end or
\* to the exception that ended it
WriteBackEnded ==
    \/ pc = "done"
    \/ pc = "raised" /\ error = "TypeError"

\* the URIs of the neighbours last computed, closest first
NeighborUris ==
    [n \in 1..Len(neighbors) |->
        "spotify:track:" \o song_dict[neighbors[n][1] + 1].id]

\* C12: once the write-back has run, on a first run or on a re-run, the
\* playlist 'Latest Favorites' that new_id names holds exactly the URIs of the
\* neighbours of this run, closest first, and no track of an earlier run
C12_PlaylistHoldsTheNeighbours ==
    WriteBackEnded =>
        \E i \in 1..Len(library) :
            /\ library[i].id = new_id
            /\ library[i].name = playlist_name
            /\ library[i].tracks = NeighborUris

\* the artist ids of the tracks of the playlist read by the latest load
LoadedArtistIds ==
    UNION {{a.id : a \in Range(TrackArtists(remote[i]))} :
           i \in 1..Len(remote)}

\* C13: after every load of the session, the first or a later one, of the
\* same playlist or of another, all_genres holds exactly the genres and
\* all_artists exactly the artists of the songs of that load
C13_VocabulariesAreOfTheLatestLoad ==
    pc = "index" =>
        /\ Range(all_genres) =
              UNION {Range(ArtistGenres(id)) : id \in LoadedArtistIds}
        /\ Range(all_artists) = {ArtistName(id) : id \in LoadedArtistIds}

\* the ids of the songs of the playlist
PlaylistIds == {songs[i].id : i \in 1..Len(songs)}

\* the tracks of the top-tracks answer that are in the playlist
TopInPlaylist == {i \in 1..Len(top_5) : Track(top_5[i]).id \in PlaylistIds}

\* the profile cell found no song to build the profile from
ProfileFailed == pc = "raised" /\ error = "IndexError" /\ top_5_songs = <<>>

\* the profile cell has run, to its end or to its exception
ProfileCellRan ==
    \/ pc \in {"append", "neighbors", "writeback", "add", "done"}
    \/ ProfileFailed

\* C14: with two or more of the top tracks in the playlist the profile is
\* built, and appended to song_dict by the next cell; with none of them in
\* the playlist the profile cell fails and song_dict has no profile
C14_ProfileNeedsFavouritesInPlaylist ==
    ProfileCellRan =>
        /\ Cardinality(TopInPlaylist) >= 2 =>
              /\ ~ProfileFailed
              /\ latest_fav.name = playlist_name
              /\ pc \in {"neighbors", "writeback", "add", "done"} =>
                    /\ Len(song_dict) = Len(songs) + 1
                    /\ song_dict[Len(song_dict)] = latest_fav
        /\ TopInPlaylist = {} =>
              /\ ProfileFailed
              /\ Len(song_dict) = Len(songs)

\* the tracks of the top-tracks answer that the filter of top_5_songs keeps
KeptTop ==
    {i \in 1..Len(top_5) :
        \E j \in 1..Len(songs) : songs[j].name = Track(top_5[i]).name}

\* the top-tracks cell has run to its end
TopCellRan ==
    \/ pc \in {"profile", "append", "neighbors", "writeback", "add", "done"}
    \/ ProfileFailed

\* C19: every track kept in top_5_songs has the id of a song of the playlist,
\* and so every artist and every genre of a kept record is in the vocabularies
C19_KeptTopTracksArePlaylistSongs ==
    TopCellRan =>
        /\ \A i \in KeptTop : Track(top_5[i]).id \in PlaylistIds
        /\ \A k \in 1..Len(top_5_songs) :
              /\ Range(top_5_songs[k].genres) \subseteq Range(all_genres)
              /\ Range(top_5_songs[k].artists) \subseteq Range(all_artists)

\* how many ones a vector has
Ones(v) == Cardinality({i \in 1..Len(v) : v[i] = 1})

\* positions with 1 in a and 0 in b, less positions with 0 in a and 1 in b
Excess(a, b) == CountPairs(a, b, 1, 0) - CountPairs(a, b, 0, 1)

ListDistanceAsymmetry(a, b) ==
    /\ list_distance(a, b) - list_distance(b, a) = 200 * Excess(a, b)
    /\ list_distance(a, b) = list_distance(b, a) <=> Ones(a) = Ones(b)

OverVocabularies(a) ==
    /\ Range(a.genres) \subseteq Range(all_genres)
    /\ Range(a.artists) \subseteq Range(all_artists)

SameVectors(a, b) ==
    /\ a.genres_indexed = b.genres_indexed
    /\ a.artists_indexed = b.artists_indexed
    /\ a.popularity = b.popularity

Candidates == (0..(Len(song_dict) - 1)) \ {query.song}

\* C17: among candidates at the same distance from the base, getNeighbors
\* returns the one with the smaller song_dict index first, and when the cut
\* at K falls between them it is the one with the smaller index that is kept
C17_TiesByPlaylistPosition ==
    pc = "called" =>
        /\ \A m, n \in 1..Len(neighbors) :
              (m < n /\ neighbors[m][2] = neighbors[n][2])
                  => neighbors[m][1] < neighbors[n][1]
        /\ \A n \in 1..Len(neighbors) :
           \A other \in Candidates \ NeighborIndices :
              ComputeDistance(BaseSong, song_dict[other + 1]) = neighbors[n][2]
                  => neighbors[n][1] < other

\* a call whose cut fell between two candidates at the same distance: it
\* left out a candidate at the distance of the last one it returned
C17_Witness ==
    /\ pc = "called"
    /\ neighbors # <<>>
    /\ \E other \in Candidates \ NeighborIndices :
          /\ ComputeDistance(BaseSong, song_dict[other + 1])
                = neighbors[Len(neighbors)][2]
          /\ neighbors[Len(neighbors)][1] < other

\* the script is at a cell that comes after the load: the top tracks, the
\* profile, its append, the neighbours, the write-back
AfterLoad ==
    pc \in {"top5", "profile", "append", "neighbors", "writeback", "add"}

\* songs, the vocabularies and the records of the playlist songs in song_dict
\* stay as they are, and song_dict holds at most one record more
LoadKept ==
    /\ songs' = songs
    /\ all_genres' = all_genres
    /\ all_artists' = all_artists
    /\ Len(song_dict') \in {Len(songs), Len(songs) + 1}
    /\ \A i \in 1..Len(songs) : song_dict'[i] = song_dict[i]

\* C18 as stated: no cell after the load changes songs, the artists
\* dictionary, all_genres, all_artists or a record of song_dict, the profile
\* appended to song_dict being the only change
C18_LaterCellsChangeNothing ==
    [][AfterLoad => (LoadKept /\ artists' = artists)]_vars

\* C18, amended: no cell after the load changes songs, all_genres,
\* all_artists or the record of a playlist song in song_dict, and only the
\* profile is added to song_dict; the artists dictionary is changed by the
\* top-tracks cell only, which keeps its keys in place and adds to them
C18_LaterCellsKeepTheLoad ==
    [][AfterLoad =>
          /\ LoadKept
          /\ pc # "top5" => artists' = artists
          /\ Len(artists'.keys) >= Len(artists.keys)
          /\ SubSeq(artists'.keys, 1, Len(artists.keys)) = artists.keys]_vars

\* the profile is in song_dict, and the artists dictionary holds an artist
\* that the load did not put there
C18_Witness ==
    /\ pc = "neighbors"
    /\ Len(song_dict) = Len(songs) + 1
    /\ song_dict[Len(song_dict)] = latest_fav
    /\ Len(artists.keys) > Len(all_artists)

\* the artist ids Spotify knows
ArtistIds == {"id1", "id2", "id3", "id4"}

\* the genres Spotify returns for the artists of the track
OwnGenres(t) ==
    UNION {Range(ArtistGenres(a.id)) : a \in Range(TrackArtists(t))}

\* C20: the genres recorded for a loaded song, a song loaded after a failed
\* lookup included, are genres Spotify returned for artists of that song,
\* and the entry of the artists dictionary for an artist is the list Spotify
\* returned for that artist
C20_GenresComeFromOwnArtists ==
    /\ \A i \in 1..Len(songs) :
       \A t \in Range(remote) :
          songs[i].id = Track(t).id => Range(songs[i].genres) \subseteq OwnGenres(t)
    /\ \A id \in ArtistIds :
          DictHas(artists, ArtistName(id))
              => DictGet(artists, ArtistName(id)) = ArtistGenres(id)

\* the profile cell has built latest_fav from the songs of top_5_songs
ProfileBuilt ==
    /\ pc \in {"append", "neighbors", "writeback", "add", "done"}
    /\ top_5_songs # <<>>

TopPopularities == {top_5_songs[k].popularity : k \in 1..Len(top_5_songs)}

\* C21: the popularity of the profile is the floor of the mean of the
\* popularities of the songs of top_5_songs (the integer p with
\* p * n <= sum < (p + 1) * n), it is not below the smallest nor above the
\* largest of them, and it is in 0..100 when they are
C21_ProfilePopularityIsFloorOfMean ==
    ProfileBuilt =>
        LET n   == Len(top_5_songs)
            sum == SumPopularity(top_5_songs)
            p   == latest_fav.popularity
        IN  /\ p * n <= sum
            /\ sum < (p + 1) * n
            /\ \E low \in TopPopularities : low <= p
            /\ \E high \in TopPopularities : p <= high
            /\ TopPopularities \subseteq 0..100 => p \in 0..100

\* a profile of two songs whose mean popularity is not an integer
C21_Witness ==
    /\ ProfileBuilt
    /\ Len(top_5_songs) >= 2
    /\ SumPopularity(top_5_songs) % Len(top_5_songs) # 0
    /\ latest_fav.popularity \notin TopPopularities

\* the positions of the requests log that are artist lookups
ArtistRequests == {i \in 1..Len(requests) : requests[i].kind = "artist"}

\* C22: get_song_genres sends at most one request per artist id in a
\* session, the load and the top-tracks cell together: an artist that was
\* looked up before is served from the artists dictionary
C22_OneRequestPerArtist ==
    \A i, j \in ArtistRequests :
        requests[i].id = requests[j].id => i = j

\* getNeighbors has been called, and this is the state it left
NeighborsCalled == query.K >= 0 /\ pc \in {"called", "raised"}

\* C23: a call getNeighbors(s, K) raises IndexError exactly when K is
\* greater than the number of other songs, and then returns nothing; a call
\* that returns gives K different songs, none of them the base
C23_TooLargeKRaises ==
    NeighborsCalled =>
        /\ (pc = "raised" /\ error = "IndexError")
              <=> query.K > Len(song_dict) - 1
        /\ pc = "raised" => neighbors = <<>>
        /\ pc = "called" =>
              /\ Len(neighbors) = query.K
              /\ query.song \notin NeighborIndices
              /\ Cardinality(NeighborIndices) = query.K

\* a call on a song_dict with other songs, with K one above their number
C23_Witness ==
    /\ pc = "raised"
    /\ error = "IndexError"
    /\ Len(song_dict) >= 2
    /\ query.K = Len(song_dict)

\* the genre lists and the artist lists of the songs of top_5_songs
TopGenres == [k \in 1..Len(top_5_songs) |-> top_5_songs[k].genres]

TopArtists == [k \in 1..Len(top_5_songs) |-> top_5_songs[k].artists]

\* vector is the element-wise OR of the vectors that `indexed` gives for the
\* lists, taken in any order, and is `indexed` of their union; it has the
\* length of the vocabulary and entries 0 and 1 only
IsOrOfVectors(vector, lists, union, vocabulary, indexed(_), or(_)) ==
    /\ Len(vector) = Len(vocabulary)
    /\ \A i \in 1..Len(vector) :
          /\ vector[i] \in {0, 1}
          /\ vector[i] = 1 <=> \E k \in 1..Len(lists) : indexed(lists[k])[i] = 1
          /\ vector[i] = 1 <=>
                \E k \in 1..Len(lists) : vocabulary[i] \in Range(lists[k])
    /\ vector = indexed(union)
    /\ \A order \in Perms(1..Len(lists)) :
          or([k \in 1..Len(lists) |-> indexed(lists[order[k]])]) = vector

\* C24: the genres_indexed of the profile is the element-wise OR of the
\* genres_indexed of the songs of top_5_songs and is genres_indexed of the
\* union of their genre lists, it has the length of all_genres and entries
\* 0 and 1 only, and the order of the songs does not change it; the same for
\* artists_indexed over all_artists
C24_ProfileVectorsAreTheOr ==
    ProfileBuilt =>
        /\ IsOrOfVectors(latest_fav.genres_indexed, TopGenres,
                         latest_fav.genres, all_genres,
                         genres_indexed, get_genres)
        /\ IsOrOfVectors(latest_fav.artists_indexed, TopArtists,
                         latest_fav.artists, all_artists,
                         artists_indexed, get_artists)

\* a profile of two songs with different genre vectors and different artist
\* vectors, each with a one the other has not
C24_Witness ==
    /\ ProfileBuilt
    /\ Len(top_5_songs) >= 2
    /\ \E i \in 1..Len(all_artists) :
          /\ artists_indexed(top_5_songs[1].artists)[i] = 1
          /\ artists_indexed(top_5_songs[2].artists)[i] = 0
    /\ \E i \in 1..Len(all_artists) :
          /\ artists_indexed(top_5_songs[1].artists)[i] = 0
          /\ artists_indexed(top_5_songs[2].artists)[i] = 1
    /\ genres_indexed(top_5_songs[1].genres)
          # genres_indexed(top_5_songs[2].genres)

\* the list is the records of the playlist songs followed by the profile fav
HoldsProfile(list, fav) ==
    /\ Len(list) = Len(songs) + 1
    /\ list[Len(list)] = fav
    /\ SubSeq(list, 1, Len(songs)) = knn_prepared_data(songs)

\* lists of a length the append cell does not accept: song_dict cut short,
\* and song_dict with two records more than the playlist has songs
OtherLengths ==
    {SubSeq(song_dict, 1, k) : k \in 0..(Len(songs) - 1)}
        \cup {knn_prepared_data(songs) \o <<latest_fav, latest_fav>>}

\* C25: however many times the append cell has run, song_dict is the
\* records of the playlist songs followed by the current latest_fav, a run
\* on a song_dict that holds a profile replaces it, and a second run changes
\* nothing; on a list of any other length the cell raises and leaves it as
\* it is
C25_AppendIsIdempotent ==
    /\ pc = "neighbors" => HoldsProfile(song_dict, latest_fav)
    /\ pc = "append" =>
          LET once  == append_cell(song_dict, Len(songs), latest_fav)
              twice == append_cell(once.song_dict, Len(songs), latest_fav)
          IN  /\ Len(song_dict) \in {Len(songs), Len(songs) + 1}
              /\ ~once.raised
              /\ HoldsProfile(once.song_dict, latest_fav)
              /\ ~twice.raised
              /\ twice.song_dict = once.song_dict
              /\ \A other \in OtherLengths :
                    append_cell(other, Len(songs), latest_fav)
                        = [raised |-> TRUE, song_dict |-> other]

\* the append cell is about to run again, on a song_dict that holds an
\* earlier profile, different from the current latest_fav
C25_Witness ==
    /\ pc = "append"
    /\ Len(song_dict) = Len(songs) + 1
    /\ song_dict[Len(song_dict)] # latest_fav
    /\ song_dict[Len(song_dict)].name = playlist_name

\* the playlists of the library that are called 'Latest Favorites'
NamedLatestFavorites ==
    {i \in 1..Len(library) : library[i].name = playlist_name}

\* C26: the library never holds more than one playlist called
\* 'Latest Favorites', however many playlists it holds: the write-back
\* creates one only when there is none, and reuses the one there is
C26_OneLatestFavorites ==
    /\ Cardinality(NamedLatestFavorites) <= 1
    /\ pc \in {"add", "done"} =>
          \E i \in NamedLatestFavorites : library[i].id = new_id

-----------------------------------------------------------------------------
(* The start form: updateCheckboxes and the change events that call it *)

\* const is...Checked = ....checked: the values the function branches on
isChecked(f, box) == f.checked[box]

\* if (isPlaylistUrlChecked) { ... }, with the unchecking left out
UrlBranch_keeps_checked(f) ==
    [f EXCEPT !.disabled["PlaylistUrlText"] = FALSE,
              !.disabled["LikedSongs"] = TRUE,
              !.disabled["PlaylistID"] = TRUE,
              !.display["PlaylistIDText"] = "none",
              !.display["PlaylistUrlText"] = "flex",
              !.cursor["PlaylistID"] = "not-allowed",
              !.cursor["LikedSongs"] = "not-allowed"]

\* if (isPlaylistUrlChecked) { ... }
UrlBranch(f) ==
    [f EXCEPT !.disabled["PlaylistUrlText"] = FALSE,
              !.checked["LikedSongs"] = FALSE,
              !.checked["PlaylistID"] = FALSE,
              !.disabled["LikedSongs"] = TRUE,
              !.disabled["PlaylistID"] = TRUE,
              !.display["PlaylistIDText"] = "none",
              !.display["PlaylistUrlText"] = "flex",
              !.cursor["PlaylistID"] = "not-allowed",
              !.cursor["LikedSongs"] = "not-allowed"]

\* else if (isPlaylistIdChecked) { ... }
IdBranch(f) ==
    [f EXCEPT !.disabled["PlaylistIDText"] = FALSE,
              !.checked["LikedSongs"] = FALSE,
              !.checked["PlaylistUrl"] = FALSE,
              !.disabled["LikedSongs"] = TRUE,
              !.disabled["PlaylistUrl"] = TRUE,
              !.display["PlaylistIDText"] = "flex",
              !.display["PlaylistUrlText"] = "none",
              !.cursor["LikedSongs"] = "not-allowed",
              !.cursor["PlaylistUrl"] = "not-allowed"]

\* else if (isLikedSongsChecked) { ... }
LikedBranch(f) ==
    [f EXCEPT !.checked["PlaylistID"] = FALSE,
              !.checked["PlaylistUrl"] = FALSE,
              !.disabled["PlaylistID"] = TRUE,
              !.disabled["PlaylistUrl"] = TRUE,
              !.display["PlaylistIDText"] = "none",
              !.display["PlaylistUrlText"] = "none",
              !.cursor["PlaylistID"] = "not-allowed",
              !.cursor["PlaylistUrl"] = "not-allowed"]

\* else { ... }, with the checkboxes left as they are
NoneBranch_no_enable(f) ==
    [f EXCEPT !.disabled["PlaylistUrlText"] = TRUE,
              !.disabled["PlaylistIDText"] = TRUE,
              !.disabled["UserIDText"] = TRUE,
              !.display["PlaylistIDText"] = "none",
              !.display["PlaylistUrlText"] = "none",
              !.cursor["LikedSongs"] = "text",
              !.cursor["PlaylistID"] = "text",
              !.cursor["PlaylistUrl"] = "text"]

\* else { ... }
NoneBranch(f) ==
    [f EXCEPT !.disabled["PlaylistUrlText"] = TRUE,
              !.disabled["PlaylistIDText"] = TRUE,
              !.disabled["UserIDText"] = TRUE,
              !.disabled["LikedSongs"] = FALSE,
              !.disabled["PlaylistID"] = FALSE,
              !.disabled["UserID"] = FALSE,
              !.disabled["PlaylistUrl"] = FALSE,
              !.display["PlaylistIDText"] = "none",
              !.display["PlaylistUrlText"] = "none",
              !.cursor["LikedSongs"] = "text",
              !.cursor["PlaylistID"] = "text",
              !.cursor["PlaylistUrl"] = "text"]

\* the last two lines left out: the text input stays as it was
UserIdText_untouched(f, isUserIdChecked) ==
    f

\* userIdText.disabled = !isUserIdChecked; userIdText.style.display = ...
UserIdText(f, isUserIdChecked) ==
    [f EXCEPT !.disabled["UserIDText"] = ~isUserIdChecked,
              !.display["UserIDText"] =
                  IF isUserIdChecked THEN "flex" ELSE "none"]

\* function updateCheckboxes(): the form it leaves, from the form it finds
updateCheckboxes(f) ==
    LET isUserIdChecked      == isChecked(f, "UserID")
        isPlaylistIdChecked  == isChecked(f, "PlaylistID")
        isLikedSongsChecked  == isChecked(f, "LikedSongs")
        isPlaylistUrlChecked == isChecked(f, "PlaylistUrl")
        branched ==
            IF isPlaylistUrlChecked THEN UrlBranch(f)
            ELSE IF isPlaylistIdChecked THEN IdBranch(f)
            ELSE IF isLikedSongsChecked THEN LikedBranch(f)
            ELSE NoneBranch(f)
    IN  UserIdText(branched, isUserIdChecked)

\* the user clicks a checkbox: the browser flips it, which it does for an
\* enabled checkbox only, and sends the change event to its listener
Toggled(f, box) == [f EXCEPT !.checked[box] = ~@]

ChangePlaylistUrl ==
    /\ ~form.disabled["PlaylistUrl"]
    /\ form' = updateCheckboxes(Toggled(form, "PlaylistUrl"))
    /\ updated' = TRUE
    /\ UNCHANGED notebook

ChangeLikedSongs ==
    /\ ~form.disabled["LikedSongs"]
    /\ form' = updateCheckboxes(Toggled(form, "LikedSongs"))
    /\ updated' = TRUE
    /\ UNCHANGED notebook

ChangePlaylistID ==
    /\ ~form.disabled["PlaylistID"]
    /\ form' = updateCheckboxes(Toggled(form, "PlaylistID"))
    /\ updated' = TRUE
    /\ UNCHANGED notebook

ChangeUserID ==
    /\ ~form.disabled["UserID"]
    /\ form' = updateCheckboxes(Toggled(form, "UserID"))
    /\ updated' = TRUE
    /\ UNCHANGED notebook

\* the change event of a checkbox
Change(box) ==
    CASE box = "PlaylistUrl" -> ChangePlaylistUrl
      [] box = "LikedSongs"  -> ChangeLikedSongs
      [] box = "PlaylistID"  -> ChangePlaylistID
      [] box = "UserID"      -> ChangeUserID

\* the page as the browser hands it to the script: every checkbox can be
\* clicked; which ones are checked, and how the text inputs are shown, is the
\* page's own business
LoadedForms ==
    [checked  : [Boxes -> BOOLEAN],
     disabled : {d \in [Boxes \cup Texts -> BOOLEAN] :
                     \A b \in Boxes : ~d[b]},
     display  : [Texts -> {"", "none"}],
     cursor   : {[b \in Sources |-> ""]}]

InitForm ==
    /\ form \in LoadedForms
    /\ updated = FALSE
    /\ remote = <<>>
    /\ throttle = 0
    /\ library = <<OtherPlaylist>>
    /\ requests = <<>>
    /\ pc = "count"
    /\ error = "none"
    /\ artists = EmptyDict
    /\ songs = <<>>
    /\ total_song_count = 0
    /\ all_genres = <<>>
    /\ offset = 0
    /\ items = <<>>
    /\ all_artists = <<>>
    /\ song_dict = <<>>
    /\ top_5_songs = <<>>
    /\ latest_fav = NoProfile
    /\ neighbors = <<>>
    /\ query = NoQuery
    /\ top_5 = <<>>
    /\ new_id = ""

NextForm ==
    \/ ChangePlaylistUrl
    \/ ChangeLikedSongs
    \/ ChangePlaylistID
    \/ ChangeUserID

SpecForm == InitForm /\ [][NextForm]_vars

-----------------------------------------------------------------------------
(* Properties of the start form *)

\* the source checkbox the branches of updateCheckboxes decide for
Winner(f) ==
    IF f.checked["PlaylistUrl"] THEN "PlaylistUrl"
    ELSE IF f.checked["PlaylistID"] THEN "PlaylistID"
    ELSE IF f.checked["LikedSongs"] THEN "LikedSongs"
    ELSE "none"

\* what a run of updateCheckboxes that found the form as pre leaves in post
OneSourceLeft(pre, post) ==
    /\ \A s \in Sources : post.checked[s] <=> s = Winner(pre)
    /\ Cardinality({s \in Sources : post.checked[s]}) <= 1
    /\ Winner(pre) # "none" =>
           \A s \in Sources \ {Winner(pre)} :
               ~post.checked[s] /\ post.disabled[s]
    /\ Winner(pre) = "none" => \A s \in Sources : ~post.disabled[s]

\* C27: every change event leaves at most one of PlaylistUrl, PlaylistID and
\* LikedSongs checked: the first of them, in that order, that was checked
\* when updateCheckboxes started; the other two are then unchecked and
\* disabled, and when none was checked all three are enabled
C27_AtMostOneSource ==
    [][\A box \in Boxes :
           Change(box) => OneSourceLeft(Toggled(form, box), form')]_vars

\* a run has left PlaylistID checked and the other two sources disabled
C27_Witness ==
    /\ updated
    /\ form.checked["PlaylistID"]
    /\ ~form.checked["PlaylistUrl"] /\ form.disabled["PlaylistUrl"]
    /\ ~form.checked["LikedSongs"] /\ form.disabled["LikedSongs"]

\* C28: the form never gets stuck: after a change event a checked source
\* checkbox is enabled, unchecking the checked source of a form that
\* updateCheckboxes has left gives all three sources enabled, and the UserID
\* checkbox is neither disabled nor re-checked or unchecked by updateCheckboxes
C28_NeverStuck ==
    [][\A box \in Boxes :
           Change(box) =>
               /\ \A s \in Sources : form'.checked[s] => ~form'.disabled[s]
               /\ (updated /\ box \in Sources /\ form.checked[box]) =>
                      \A s \in Sources : ~form'.disabled[s]
               /\ ~form'.disabled["UserID"]
               /\ form'.checked["UserID"] =
                      Toggled(form, box).checked["UserID"]]_vars

\* the form is back to no source chosen, every source enabled, the cursors as
\* the last branch of updateCheckboxes sets them, UserID checked
C28_Witness ==
    /\ updated
    /\ \A s \in Sources :
           ~form.checked[s] /\ ~form.disabled[s] /\ form.cursor[s] = "text"
    /\ form.checked["UserID"] /\ ~form.disabled["UserID"]

\* the text input that belongs to a checkbox
TextOf(box) ==
    CASE box = "PlaylistUrl" -> "PlaylistUrlText"
      [] box = "PlaylistID"  -> "PlaylistIDText"
      [] box = "UserID"      -> "UserIDText"

Shown(f, text) == f.display[text] # "none" /\ ~f.disabled[text]

\* C29: once updateCheckboxes has run, each text input is displayed and
\* enabled exactly when its checkbox is checked: PlaylistUrlText with
\* PlaylistUrl, PlaylistIDText with PlaylistID, UserIDText with UserID
C29_TextsFollowCheckboxes ==
    updated =>
        \A box \in Boxes \ {"LikedSongs"} :
            Shown(form, TextOf(box)) <=> form.checked[box]

\* PlaylistUrl and UserID are checked and their inputs shown, PlaylistID's is not
C29_Witness ==
    /\ updated
    /\ form.checked["PlaylistUrl"] /\ Shown(form, "PlaylistUrlText")
    /\ form.checked["UserID"] /\ Shown(form, "UserIDText")
    /\ ~form.checked["PlaylistID"] /\ ~Shown(form, "PlaylistIDText")

=============================================================================
